---------------------------- MODULE Spec2Model ----------------------------
(***************************************************************************)
(* A model of dbt-incremental-ci: the change resolver                      *)
(* (DbtHelper.filter_incremental_and_snapshots), the schema namer          *)
(* (TableCopier._compute_target_schema), the statement builder             *)
(* (TableCopier._build_copy_query) and the replication executor            *)
(* (TableCopier._copy_single_table / copy_tables).                         *)
(*                                                                         *)
(* Python strings are sequences of tokens: a name is a sequence of         *)
(* one-character tokens, a SQL text is a sequence of keyword tokens,       *)
(* whitespace tokens, ";" tokens and the characters of the names in it.    *)
(* An optional value (None or a value) is a sequence of length 0 or 1.     *)
(***************************************************************************)
EXTENDS Naturals, Sequences, FiniteSets, TLC

VARIABLES
    \* ---- TableCopier (copier.py) ----
    dry_run,        \* self.dry_run
    threads,        \* self.threads
    database_uri,   \* self.database_uri
    base_schema,    \* self.base_schema (optional)
    ci_schema,      \* self.ci_schema
    engine,         \* self.engine (optional: <<>> is None)
    nodes,          \* the argument of copy_tables
    ct,             \* position of copy_tables: idle, running, unwinding, returned, raised
    exc,            \* the exception leaving copy_tables (optional message)
    pc,             \* position of each _copy_single_table invocation
    todo,           \* statements a candidate still has to execute
    log,            \* per candidate: the connection events it caused
    future,         \* per candidate: what its invocation returned or raised
    results,        \* the local list `results` of copy_tables
    runs,           \* per candidate: number of _copy_single_table invocations
    \* ---- DbtHelper (dbt_helper.py) ----
    prod_manifest,  \* self.prod_manifest: [nodes, sources]
    modified_nodes, \* the argument of filter_incremental_and_snapshots
    filtered_nodes, \* its return value (optional)
    \* ---- schema namer inputs/outputs ----
    source_schema,  \* the argument of _compute_target_schema
    target_schema,  \* its return value (optional)
    \* ---- cli.main and DbtIncrementalCI (cli.py, core.py) ----
    main_pc,        \* position of main
    opts,           \* the manifest-source options of the command line
    temp_manifest_path, \* self._temp_manifest_path (optional)
    cache_file,     \* is the cached manifest.json on disk
    unlinked,       \* the paths os.unlink was called on, in order
    fatal,          \* the exception caught by main (optional message)
    report,         \* the value returned by run (optional)
    exit_code,      \* the exit status of the process (optional)
    err_stream,     \* number of messages main wrote to the error stream
    failed_step,    \* the step whose collaborator failed (optional)
    calls           \* calls made by run: [filter, copy]

vars == <<dry_run, threads, database_uri, base_schema, ci_schema, engine, nodes,
          ct, exc, pc, todo, log, future, results, runs,
          prod_manifest, modified_nodes, filtered_nodes,
          source_schema, target_schema,
          main_pc, opts, temp_manifest_path, cache_file, unlinked, fatal, report,
          exit_code, err_stream, failed_step, calls>>

copierVars == <<dry_run, threads, database_uri, base_schema, ci_schema, engine,
                nodes, ct, exc, pc, todo, log, future, results, runs>>
resolverVars == <<prod_manifest, modified_nodes, filtered_nodes>>
namerVars == <<source_schema, target_schema>>
mainVars == <<main_pc, opts, temp_manifest_path, cache_file, unlinked, fatal,
              report, exit_code, err_stream, failed_step, calls>>

-----------------------------------------------------------------------------
(* Bounds of the model.                                                    *)
MaxSchemaLen == 3   \* longest enumerated schema name (schema namer)
MaxEntries == 2     \* most entries of a manifest
MaxModified == 2    \* most raw changed strings
MaxNodes == 3       \* most candidates handed to copy_tables
MaxThreads == 2     \* largest thread count

-----------------------------------------------------------------------------
(* Optional values and Python string operations.                           *)
None == <<>>
Some(x) == <<x>>

\* All sequences over S of length at most n.
BoundedSeq(S, n) == UNION {[1..k -> S] : k \in 0..n}

\* str.startswith
StartsWith(s, p) == Len(p) <= Len(s) /\ SubSeq(s, 1, Len(p)) = p

\* str.endswith
EndsWith(s, p) == Len(p) <= Len(s) /\ SubSeq(s, Len(s) - Len(p) + 1, Len(s)) = p

\* the `in` operator on strings (substring test)
Contains(s, p) == \E i \in 0..(Len(s) - Len(p)) : SubSeq(s, i + 1, i + Len(p)) = p

\* s[n:]
SliceFrom(s, n) == SubSeq(s, n + 1, Len(s))

\* s.split('.')[-1]
LastSegment(s) ==
    LET dots == {i \in 1..Len(s) : s[i] = "."}
    IN  IF dots = {} THEN s
        ELSE SliceFrom(s, CHOOSE i \in dots : \A j \in dots : j <= i)

-----------------------------------------------------------------------------
(* Schema namer: TableCopier._compute_target_schema.                       *)

\* `not self.base_schema`: None or the empty string
BaseUnset(base) == base = None \/ base[1] = <<>>

\* mutant: the startswith test is dropped
ComputeTargetSchemaNoPrefixTest(base, ci, src) ==
    IF BaseUnset(base) THEN ci
    ELSE IF SliceFrom(src, Len(base[1])) # <<>>
         THEN ci \o SliceFrom(src, Len(base[1]))
         ELSE ci

ComputeTargetSchema(base, ci, src) ==
    IF BaseUnset(base) THEN ci
    ELSE IF StartsWith(src, base[1]) /\ SliceFrom(src, Len(base[1])) # <<>>
         THEN ci \o SliceFrom(src, Len(base[1]))
         ELSE ci


-----------------------------------------------------------------------------
(* Dialect resolution: TableCopier.__init__ and _get_dialect_name.         *)
(* A connection string is a sequence of word tokens, the scheme first:     *)
(* <<"trino", "://", "bigquery">> is the text trino://bigquery.            *)

\* mutant: an engine is created in dry-run mode too
MakeEngineAlways(dry, uri) == Some(uri)

\* create_engine(database_uri), or None in dry-run mode
MakeEngine(dry, uri) == IF dry THEN None ELSE Some(uri)

\* engine.dialect.name: the dialect named by the scheme of the URI
EngineDialectName(eng) == eng[1][1]

\* the substring tests of dry-run mode, in the order of the code
UriDialectName(uri) ==
    IF Contains(uri, <<"postgresql">>) THEN "postgresql"
    ELSE IF Contains(uri, <<"redshift">>) THEN "redshift"
    ELSE IF Contains(uri, <<"bigquery">>) THEN "bigquery"
    ELSE IF Contains(uri, <<"trino">>) THEN "trino"
    ELSE "unknown"

GetDialectName == IF dry_run THEN UriDialectName(database_uri)
                  ELSE EngineDialectName(engine)

-----------------------------------------------------------------------------
(* Statement builder: TableCopier._build_copy_query, and the splitting     *)
(* of its text in _copy_single_table.                                      *)
WS == " "          \* a run of whitespace
BQ == "BACKTICK"   \* the quoting character of the bigquery text

\* `if source_database`: None and the empty string are false
Truthy(opt) == opt # None /\ opt[1] # <<>>

SourceFull(dialect, database, schema, table) ==
    IF Truthy(database) /\ dialect # "bigquery"
    THEN database[1] \o <<".">> \o schema \o <<".">> \o table
    ELSE schema \o <<".">> \o table

TargetFull(schema, table) ==
    ComputeTargetSchema(base_schema, ci_schema, schema) \o <<".">> \o table

ReplaceText(target, source) ==
    <<WS, "CREATE OR REPLACE TABLE", WS, BQ>> \o target \o
    <<BQ, WS, "AS SELECT * FROM", WS, BQ>> \o source \o <<BQ, WS>>

DropCreateText(target, source) ==
    <<WS, "DROP TABLE IF EXISTS", WS>> \o target \o
    <<";", WS, "CREATE TABLE", WS>> \o target \o
    <<WS, "AS SELECT * FROM", WS>> \o source \o <<";", WS>>

\* the text _build_copy_query builds when _get_dialect_name returns `dialect`
BuildCopyQueryFor(dialect, database, schema, table, target_table) ==
    LET source_full == SourceFull(dialect, database, schema, table)
        target_full == TargetFull(schema, target_table)
    IN  IF dialect = "bigquery" THEN ReplaceText(target_full, source_full)
        ELSE IF dialect \in {"postgresql", "redshift"}
             THEN DropCreateText(target_full, source_full)
        ELSE IF dialect = "trino" THEN DropCreateText(target_full, source_full)
        ELSE DropCreateText(target_full, source_full)

BuildCopyQuery(database, schema, table, target_table) ==
    BuildCopyQueryFor(GetDialectName, database, schema, table, target_table)

\* str.strip
Strip(s) ==
    LET keep == {i \in 1..Len(s) : s[i] # WS}
    IN  IF keep = {} THEN <<>>
        ELSE SubSeq(s, CHOOSE i \in keep : \A j \in keep : i <= j,
                       CHOOSE i \in keep : \A j \in keep : j <= i)

\* str.split(sep)
RECURSIVE SplitOn(_, _)
SplitOn(s, sep) ==
    LET at == {i \in 1..Len(s) : s[i] = sep}
    IN  IF at = {} THEN <<s>>
        ELSE LET i == CHOOSE k \in at : \A j \in at : k <= j
             IN  <<SubSeq(s, 1, i - 1)>> \o SplitOn(SliceFrom(s, i), sep)

\* [s.strip() for s in query.split(";") if s.strip()]
SplitStatements(query) ==
    LET parts == SplitOn(query, ";")
        stripped == [k \in 1..Len(parts) |-> Strip(parts[k])]
    IN  SelectSeq(stripped, LAMBDA s : s # <<>>)

\* mutant: every dialect has its text split at ';'
StatementsToExecuteAlwaysSplit(dialect, query) == SplitStatements(query)

\* the texts handed to conn.execute, in order
StatementsToExecute(dialect, query) ==
    IF dialect \in {"postgresql", "redshift", "trino"}
    THEN SplitStatements(query)
    ELSE <<query>>

-----------------------------------------------------------------------------
(* Replication executor: TableCopier._create_schema_if_not_exists,         *)
(* _copy_single_table and copy_tables.                                     *)

Cands == 1..Len(nodes)

\* node.get('alias', node.get('name')): the resolver always sets 'alias'
SourceTable(node) == node.alias

SourceRef(node) == node.schema \o <<".">> \o SourceTable(node)

TargetRef(node) ==
    ComputeTargetSchema(base_schema, ci_schema, node.schema)
        \o <<".">> \o SourceTable(node)

NodeQuery(node) ==
    BuildCopyQuery(node.database, node.schema, SourceTable(node), SourceTable(node))

DryRunOutcome(node) ==
    [unique_id |-> node.unique_id, source |-> SourceRef(node),
     target |-> TargetRef(node), materialization |-> node.materialization,
     status |-> "dry_run", error |-> None, query |-> Some(Strip(NodeQuery(node)))]

\* mutant: the success outcome carries the first candidate's identity
SuccessOutcomeFirstNode(node) ==
    [unique_id |-> nodes[1].unique_id, source |-> SourceRef(nodes[1]),
     target |-> TargetRef(nodes[1]), materialization |-> None,
     status |-> "success", error |-> None, query |-> None]

SuccessOutcome(node) ==
    [unique_id |-> node.unique_id, source |-> SourceRef(node),
     target |-> TargetRef(node), materialization |-> None,
     status |-> "success", error |-> None, query |-> None]

\* mutant: the message of the exception is not kept
FailedOutcomeNoMessage(node, msg) ==
    [unique_id |-> node.unique_id, source |-> SourceRef(node),
     target |-> TargetRef(node), materialization |-> None,
     status |-> "failed", error |-> Some(<<"error">>), query |-> None]

\* mutant: the failed outcome has no error
FailedOutcomeNoError(node, msg) ==
    [unique_id |-> node.unique_id, source |-> SourceRef(node),
     target |-> TargetRef(node), materialization |-> None,
     status |-> "failed", error |-> None, query |-> None]

FailedOutcome(node, msg) ==
    [unique_id |-> node.unique_id, source |-> SourceRef(node),
     target |-> TargetRef(node), materialization |-> None,
     status |-> "failed", error |-> Some(msg), query |-> None]

\* the statement of _create_schema_if_not_exists
CreateSchemaText(dialect, schema) ==
    IF dialect \in {"postgresql", "redshift"}
    THEN <<"CREATE SCHEMA IF NOT EXISTS", WS>> \o schema
    ELSE IF dialect = "trino" THEN <<"CREATE SCHEMA", WS>> \o schema
    ELSE <<"CREATE SCHEMA IF NOT EXISTS", WS>> \o schema

\* the message of the exception raised by self.engine.connect() in `phase`
ConnectError(phase) == <<"OperationalError", phase>>

\* the message of the exception raised by conn.execute(text(stmt))
ExecuteError(stmt) == <<"ProgrammingError">> \o stmt

\* what self.engine.connect() may do: succeed or raise
\* (self.engine is None only in dry-run mode: None has no connect)
ConnectOutcomes(phase) ==
    IF engine = None THEN {[ok |-> FALSE, msg |-> <<"AttributeError">>]}
    ELSE {[ok |-> TRUE, msg |-> <<>>], [ok |-> FALSE, msg |-> ConnectError(phase)]}

\* one call on the engine or a connection: what was called, and the message of
\* the exception it raised (<<>> when it returned)
Event(phase, op, text, ok, err) ==
    [phase |-> phase, op |-> op, text |-> text, ok |-> ok, err |-> err]

InFlight == {i \in Cands : pc[i] \in {"preview", "ensure", "ensure_exec", "copy", "exec"}}

\* mutant: the pool is as wide as the candidate list
PoolWidthUnbounded == Len(nodes)

\* ThreadPoolExecutor(max_workers=self.threads)
PoolWidth == threads

\* mutant: the loop starts a candidate before the previous one has returned
SeqReadyEager(i) == ct = "running" /\ i <= Len(results) + 2

\* `for node in nodes`: the next candidate, once the previous result is appended
SeqReady(i) == ct = "running" /\ i = Len(results) + 1

\* a worker of the pool takes the oldest submitted task when it is free;
\* shutdown(wait=True) lets queued tasks run while an exception unwinds
PoolReady(i) ==
    /\ ct \in {"running", "unwinding"}
    /\ \A j \in Cands : j < i => pc[j] # "pending"
    /\ Cardinality(InFlight) < PoolWidth

\* copy_tables is called
CallCopyTables ==
    /\ ct = "idle"
    /\ ct' = IF nodes = <<>> THEN "returned" ELSE "running"
    /\ UNCHANGED <<dry_run, threads, database_uri, base_schema, ci_schema, engine,
                   nodes, exc, pc, todo, log, future, results, runs>>
    /\ UNCHANGED <<resolverVars, namerVars, mainVars>>

\* _copy_single_table(node) is entered
Begin(i) ==
    /\ pc[i] = "pending"
    /\ IF threads = 1 THEN SeqReady(i) ELSE PoolReady(i)
    /\ pc' = [pc EXCEPT ![i] = IF dry_run THEN "preview" ELSE "ensure"]
    /\ runs' = [runs EXCEPT ![i] = @ + 1]
    /\ UNCHANGED <<dry_run, threads, database_uri, base_schema, ci_schema, engine,
                   nodes, ct, exc, todo, log, future, results>>
    /\ UNCHANGED <<resolverVars, namerVars, mainVars>>

\* _copy_single_table returns `outcome`: appended by the loop (threads = 1),
\* or kept by the future
Return(i, outcome) ==
    /\ pc' = [pc EXCEPT ![i] = "done"]
    /\ IF threads = 1
       THEN results' = Append(results, outcome) /\ UNCHANGED future
       ELSE future' = [future EXCEPT ![i].result = Some(outcome)] /\ UNCHANGED results
    /\ UNCHANGED <<ct, exc>>

\* an exception leaves _copy_single_table: it leaves copy_tables too
\* (threads = 1), or is kept by the future
Escape(i, msg) ==
    /\ pc' = [pc EXCEPT ![i] = "raised"]
    /\ IF threads = 1
       THEN ct' = "raised" /\ exc' = Some(msg) /\ UNCHANGED future
       ELSE future' = [future EXCEPT ![i].exception = Some(msg)] /\ UNCHANGED <<ct, exc>>
    /\ UNCHANGED results

\* the dry-run branch of _copy_single_table
Preview(i) ==
    /\ pc[i] = "preview"
    /\ Return(i, DryRunOutcome(nodes[i]))
    /\ UNCHANGED <<dry_run, threads, database_uri, base_schema, ci_schema, engine,
                   nodes, todo, log, runs>>
    /\ UNCHANGED <<resolverVars, namerVars, mainVars>>

\* mutant: a CREATE SCHEMA that raises ends the candidate
AfterCreateSchemaStrict(ok) == IF ok THEN "copy" ELSE "raised"

\* `except Exception as e: logger.warning(...)`: whether CREATE SCHEMA
\* returned or raised, _create_schema_if_not_exists returns and the copy follows
AfterCreateSchema(ok) == "copy"

\* _create_schema_if_not_exists(target_schema): nothing for bigquery; else a
\* connection (its failure is not caught) and one CREATE SCHEMA statement
\* (its failure is caught and logged)
EnsureSchema(i) ==
    /\ pc[i] = "ensure"
    /\ IF GetDialectName = "bigquery"
       THEN /\ pc' = [pc EXCEPT ![i] = "copy"]
            /\ UNCHANGED <<ct, exc, log, future, results>>
       ELSE \E c \in ConnectOutcomes("ensure") :
              IF c.ok
              THEN /\ \E ok \in BOOLEAN :
                        LET stmt == CreateSchemaText(GetDialectName,
                                        ComputeTargetSchema(base_schema, ci_schema,
                                                            nodes[i].schema))
                        IN  /\ log' = [log EXCEPT ![i] = @ \o
                                  <<Event("ensure", "connect", <<>>, TRUE, <<>>),
                                    Event("ensure", "execute", stmt, ok,
                                          IF ok THEN <<>> ELSE ExecuteError(stmt))>>]
                            /\ pc' = [pc EXCEPT ![i] = AfterCreateSchema(ok)]
                   /\ UNCHANGED <<ct, exc, future, results>>
              ELSE /\ log' = [log EXCEPT ![i] =
                                Append(@, Event("ensure", "connect", <<>>, FALSE, c.msg))]
                   /\ Escape(i, c.msg)
    /\ UNCHANGED <<dry_run, threads, database_uri, base_schema, ci_schema, engine,
                   nodes, todo, runs>>
    /\ UNCHANGED <<resolverVars, namerVars, mainVars>>

\* the try block up to `with self.engine.connect()`: the query is built and
\* the connection acquired
CopyConnect(i) ==
    /\ pc[i] = "copy"
    /\ \E c \in ConnectOutcomes("copy") :
         /\ log' = [log EXCEPT ![i] = Append(@, Event("copy", "connect", <<>>, c.ok, c.msg))]
         /\ IF c.ok
            THEN /\ todo' = [todo EXCEPT ![i] =
                               StatementsToExecute(GetDialectName, NodeQuery(nodes[i]))]
                 /\ pc' = [pc EXCEPT ![i] = "exec"]
                 /\ UNCHANGED <<ct, exc, future, results>>
            ELSE Return(i, FailedOutcome(nodes[i], c.msg)) /\ UNCHANGED todo
    /\ UNCHANGED <<dry_run, threads, database_uri, base_schema, ci_schema, engine,
                   nodes, runs>>
    /\ UNCHANGED <<resolverVars, namerVars, mainVars>>

\* the conn.execute calls of the copy: the first k - 1 statements succeed and
\* statement k raises (k = Len + 1: none raises, the success outcome returns)
CopyExecute(i) ==
    /\ pc[i] = "exec"
    /\ \E k \in 1..(Len(todo[i]) + 1) :
         /\ log' = [log EXCEPT ![i] = @ \o
                [j \in 1..(IF k > Len(todo[i]) THEN Len(todo[i]) ELSE k) |->
                    Event("copy", "execute", todo[i][j], j < k,
                          IF j < k THEN <<>> ELSE ExecuteError(todo[i][j]))]]
         /\ IF k > Len(todo[i])
            THEN Return(i, SuccessOutcome(nodes[i]))
            ELSE Return(i, FailedOutcome(nodes[i], ExecuteError(todo[i][k])))
    /\ todo' = [todo EXCEPT ![i] = <<>>]
    /\ UNCHANGED <<dry_run, threads, database_uri, base_schema, ci_schema, engine,
                   nodes, runs>>
    /\ UNCHANGED <<resolverVars, namerVars, mainVars>>

\* `for future in as_completed(...)`: result = future.result(); results.append(result)
Collect(i) ==
    /\ threads # 1
    /\ ct = "running"
    /\ pc[i] \in {"done", "raised"}
    /\ ~future[i].collected
    /\ IF future[i].exception # None
       THEN /\ ct' = "unwinding"
            /\ exc' = future[i].exception
            /\ UNCHANGED results
       ELSE /\ results' = Append(results, future[i].result[1])
            /\ UNCHANGED <<ct, exc>>
    /\ future' = [future EXCEPT ![i].collected = TRUE]
    /\ UNCHANGED <<dry_run, threads, database_uri, base_schema, ci_schema, engine,
                   nodes, pc, todo, log, runs>>
    /\ UNCHANGED <<resolverVars, namerVars, mainVars>>

\* the exception leaves the `with ThreadPoolExecutor` block once every task ended
Shutdown ==
    /\ ct = "unwinding"
    /\ \A i \in Cands : pc[i] \in {"done", "raised"}
    /\ ct' = "raised"
    /\ UNCHANGED <<dry_run, threads, database_uri, base_schema, ci_schema, engine,
                   nodes, exc, pc, todo, log, future, results, runs>>
    /\ UNCHANGED <<resolverVars, namerVars, mainVars>>

\* `return results`
ReturnResults ==
    /\ ct = "running"
    /\ IF threads = 1 THEN Len(results) = Len(nodes)
       ELSE \A i \in Cands : future[i].collected
    /\ ct' = "returned"
    /\ UNCHANGED <<dry_run, threads, database_uri, base_schema, ci_schema, engine,
                   nodes, exc, pc, todo, log, future, results, runs>>
    /\ UNCHANGED <<resolverVars, namerVars, mainVars>>

-----------------------------------------------------------------------------
(* Change resolver: DbtHelper.filter_incremental_and_snapshots.            *)
(* prod_manifest.nodes and prod_manifest.sources are dicts: functions from *)
(* a set of keys to entries.  Keys are iterated in the order of KeySeq.    *)

\* the schema names of the executor's and the resolver's inputs
CiName == <<"x">>
BaseName == <<"c">>

Key(prefix, name) == <<prefix, ".">> \o name

\* the keys a manifest may hold under 'nodes', in their order in the file
NodeKeySeq ==
    <<Key("m", <<"b">>), Key("m", <<"a", "b">>), Key("n", <<"b">>), Key("m", <<"a">>)>>

\* the keys a manifest may hold under 'sources'
SourceKeySeq == <<Key("r", <<"b">>)>>

KeySeq == NodeKeySeq \o SourceKeySeq

Range(f) == {f[x] : x \in DOMAIN f}

Entry(rt, mat, key) ==
    [resource_type |-> rt, materialized |-> mat, database |-> None,
     schema |-> BaseName, alias |-> LastSegment(key), name |-> LastSegment(key),
     custom_schema |-> None]

\* (resource_type, config.materialized) of the entries under 'nodes'
NodeKinds ==
    {<<"model", Some("incremental")>>, <<"model", Some("table")>>,
     <<"model", None>>, <<"snapshot", Some("snapshot")>>, <<"seed", Some("seed")>>}

\* all_prod = {**prod_nodes, **prod_sources}
AllProd(manifest) ==
    [k \in DOMAIN manifest.nodes \cup DOMAIN manifest.sources |->
        IF k \in DOMAIN manifest.sources THEN manifest.sources[k]
        ELSE manifest.nodes[k]]

\* mutant: the search stops at the first matching key
MatchingKeysFirstOnly(all_prod, model_name) ==
    LET hits == SelectSeq(KeySeq, LAMBDA k :
                    k \in DOMAIN all_prod
                    /\ Contains(k, model_name) /\ EndsWith(k, model_name))
    IN  IF hits = <<>> THEN <<>> ELSE <<Head(hits)>>

\* [k for k in all_prod.keys() if model_name in k and k.endswith(model_name)]
MatchingKeys(all_prod, model_name) ==
    SelectSeq(KeySeq, LAMBDA k :
        k \in DOMAIN all_prod /\ Contains(k, model_name) /\ EndsWith(k, model_name))

\* mutant: every model is selected, whatever its materialization
ModelSelectedAny(materialization) == TRUE

\* `if materialization == 'incremental'`
ModelSelected(materialization) == materialization = Some("incremental")

Candidate(node_key, node, materialization) ==
    [unique_id |-> node_key, resource_type |-> node.resource_type,
     materialization |-> materialization, database |-> node.database,
     schema |-> node.schema, alias |-> node.alias, name |-> node.name]

\* the body of `for node_key in matching_keys`: what one key appends
CandidatesOfKey(all_prod, node_key) ==
    LET node == all_prod[node_key]
    IN  IF node.resource_type = "model"
        THEN IF ModelSelected(node.materialized)
             THEN <<Candidate(node_key, node, node.materialized)>>
             ELSE <<>>
        ELSE IF node.resource_type = "snapshot"
             THEN <<Candidate(node_key, node, Some("snapshot"))>>
             ELSE <<>>

RECURSIVE CandidatesOfKeys(_, _)
CandidatesOfKeys(all_prod, keys) ==
    IF keys = <<>> THEN <<>>
    ELSE CandidatesOfKey(all_prod, Head(keys)) \o CandidatesOfKeys(all_prod, Tail(keys))

\* the body of `for node_name in modified_nodes`
CandidatesOfName(all_prod, node_name) ==
    CandidatesOfKeys(all_prod, MatchingKeys(all_prod, LastSegment(node_name)))

\* the loop over the changed strings, visited in `order`
RECURSIVE FilterInOrder(_, _)
FilterInOrder(all_prod, order) ==
    IF order = <<>> THEN <<>>
    ELSE CandidatesOfName(all_prod, Head(order)) \o FilterInOrder(all_prod, Tail(order))

\* the orders in which a Python set may be iterated
Orders(S) ==
    {o \in [1..Cardinality(S) -> S] : \A i, j \in DOMAIN o : o[i] = o[j] => i = j}

\* filter_incremental_and_snapshots(modified_nodes)
Filter ==
    /\ filtered_nodes = None
    /\ \E order \in Orders(modified_nodes) :
         filtered_nodes' = Some(FilterInOrder(AllProd(prod_manifest), order))
    /\ UNCHANGED <<prod_manifest, modified_nodes>>
    /\ UNCHANGED <<copierVars, namerVars, mainVars>>

\* the raw changed strings `dbt ls` may print: dotted identifiers
RawPool ==
    {<<"b">>, <<"p", ".", "b">>, <<"p", ".", "a", "b">>, <<"q", ".", "d", ".", "a">>,
     <<"p", ".", "z">>}

Dicts(keys, kinds) ==
    UNION {[K -> kinds] : K \in {K \in SUBSET keys : Cardinality(K) <= MaxEntries}}

Manifests ==
    {[nodes |-> [k \in DOMAIN n |-> Entry(n[k][1], n[k][2], k)],
      sources |-> [k \in DOMAIN s |-> Entry(s[k][1], s[k][2], k)]] :
        <<n, s>> \in {d \in Dicts(Range(NodeKeySeq), NodeKinds)
                              \X Dicts(Range(SourceKeySeq), {<<"source", None>>}) :
                        Cardinality(DOMAIN d[1]) + Cardinality(DOMAIN d[2]) <= MaxEntries}}

-----------------------------------------------------------------------------
(* Inputs of the executor.                                                 *)
UriPool ==
    {<<"postgresql", "://", "db">>, <<"redshift", "://", "db">>,
     <<"bigquery", "://", "db">>, <<"trino", "://", "db">>,
     <<"sqlite", "://", "db">>, <<"trino", "://", "bigquery">>}

NodePool ==
    {[unique_id |-> Key("m", <<"a">>), resource_type |-> "model",
      materialization |-> Some("incremental"), database |-> Some(<<"d">>),
      schema |-> BaseName, alias |-> <<"a">>, name |-> <<"a">>],
     [unique_id |-> Key("n", <<"b">>), resource_type |-> "snapshot",
      materialization |-> Some("snapshot"), database |-> None,
      schema |-> BaseName \o <<"_", "m">>, alias |-> <<"b">>, name |-> <<"b">>]}

NoFuture == [result |-> None, exception |-> None, collected |-> FALSE]

ResolverIdle ==
    /\ prod_manifest = [nodes |-> <<>>, sources |-> <<>>]
    /\ modified_nodes = {}
    /\ filtered_nodes = None

NamerIdle ==
    /\ source_schema = <<>>
    /\ target_schema = None

\* main has not been called
MainIdle ==
    /\ main_pc = "idle"
    /\ opts = [local |-> FALSE, cloud |-> FALSE, run_id |-> FALSE]
    /\ temp_manifest_path = None
    /\ cache_file = "absent"
    /\ unlinked = <<>>
    /\ fatal = None
    /\ report = None
    /\ exit_code = None
    /\ err_stream = 0
    /\ failed_step = None
    /\ calls = [filter |-> 0, copy |-> 0]

CopierConfigIdle ==
    /\ ci_schema = CiName
    /\ base_schema = Some(BaseName)

CopierIdle ==
    /\ dry_run = TRUE
    /\ threads = 1
    /\ database_uri = <<"postgresql", "://", "db">>
    /\ engine = MakeEngine(dry_run, database_uri)
    /\ nodes = <<>>
    /\ ct = "idle"
    /\ exc = None
    /\ pc = <<>>
    /\ todo = <<>>
    /\ log = <<>>
    /\ future = <<>>
    /\ results = <<>>
    /\ runs = <<>>

\* a TableCopier after __init__, and the list handed to copy_tables
Init ==
    /\ dry_run \in BOOLEAN
    /\ threads \in 1..MaxThreads
    /\ database_uri \in UriPool
    /\ CopierConfigIdle
    /\ engine = MakeEngine(dry_run, database_uri)
    /\ nodes \in BoundedSeq(NodePool, MaxNodes)
    /\ ct = "idle"
    /\ exc = None
    /\ pc = [i \in 1..Len(nodes) |-> "pending"]
    /\ todo = [i \in 1..Len(nodes) |-> <<>>]
    /\ log = [i \in 1..Len(nodes) |-> <<>>]
    /\ future = [i \in 1..Len(nodes) |-> NoFuture]
    /\ results = <<>>
    /\ runs = [i \in 1..Len(nodes) |-> 0]
    /\ ResolverIdle
    /\ NamerIdle
    /\ MainIdle

Next ==
    \/ CallCopyTables
    \/ \E i \in Cands : Begin(i)
    \/ \E i \in Cands : Preview(i)
    \/ \E i \in Cands : EnsureSchema(i)
    \/ \E i \in Cands : CopyConnect(i)
    \/ \E i \in Cands : CopyExecute(i)
    \/ \E i \in Cands : Collect(i)
    \/ Shutdown
    \/ ReturnResults

Spec == Init /\ [][Next]_vars

-----------------------------------------------------------------------------
(* The change resolver on its own: a loaded manifest, a set of changed     *)
(* strings, one call of filter_incremental_and_snapshots.                  *)
InitResolver ==
    /\ prod_manifest \in Manifests
    /\ modified_nodes \in {M \in SUBSET RawPool : Cardinality(M) <= MaxModified}
    /\ filtered_nodes = None
    /\ CopierConfigIdle
    /\ CopierIdle
    /\ NamerIdle
    /\ MainIdle

NextResolver == Filter

SpecResolver == InitResolver /\ [][NextResolver]_vars

-----------------------------------------------------------------------------
(* The schema namer on its own: one call of _compute_target_schema.        *)
Core == <<"c", "o", "r", "e">>
CoreMarts == <<"c", "o", "r", "e", "_", "m", "a", "r", "t", "s">>
Other == <<"o", "t", "h", "e", "r">>
Ci == <<"c", "i">>
CiMarts == <<"c", "i", "_", "m", "a", "r", "t", "s">>

SchemaNames == BoundedSeq({"c", "_"}, MaxSchemaLen) \cup {Core, CoreMarts, Other, Ci}

\* _compute_target_schema(source_schema)
ComputeTarget ==
    /\ target_schema = None
    /\ target_schema' = Some(ComputeTargetSchema(base_schema, ci_schema, source_schema))
    /\ UNCHANGED source_schema
    /\ UNCHANGED <<copierVars, resolverVars, mainVars>>

InitNamer ==
    /\ base_schema \in {None} \cup {Some(b) : b \in SchemaNames}
    /\ ci_schema \in SchemaNames
    /\ source_schema \in SchemaNames
    /\ target_schema = None
    /\ CopierIdle
    /\ ResolverIdle
    /\ MainIdle

NextNamer == ComputeTarget

SpecNamer == InitNamer /\ [][NextNamer]_vars

-----------------------------------------------------------------------------
(* The worker pool on candidates that share one target schema.             *)

\* two candidates of the same schema
RacePool ==
    {[unique_id |-> Key("m", <<"a">>), resource_type |-> "model",
      materialization |-> Some("incremental"), database |-> Some(<<"d">>),
      schema |-> BaseName, alias |-> <<"a">>, name |-> <<"a">>],
     [unique_id |-> Key("n", <<"b">>), resource_type |-> "snapshot",
      materialization |-> Some("snapshot"), database |-> None,
      schema |-> BaseName, alias |-> <<"b">>, name |-> <<"b">>]}

\* the dialects with a CREATE SCHEMA IF NOT EXISTS and with a plain CREATE SCHEMA
RaceUriPool == {<<"postgresql", "://", "db">>, <<"trino", "://", "db">>}

InitRace ==
    /\ dry_run \in BOOLEAN
    /\ threads \in 2..MaxThreads
    /\ database_uri \in RaceUriPool
    /\ CopierConfigIdle
    /\ engine = MakeEngine(dry_run, database_uri)
    /\ nodes \in {s \in BoundedSeq(RacePool, MaxNodes) : Len(s) >= 2}
    /\ ct = "idle"
    /\ exc = None
    /\ pc = [i \in 1..Len(nodes) |-> "pending"]
    /\ todo = [i \in 1..Len(nodes) |-> <<>>]
    /\ log = [i \in 1..Len(nodes) |-> <<>>]
    /\ future = [i \in 1..Len(nodes) |-> NoFuture]
    /\ results = <<>>
    /\ runs = [i \in 1..Len(nodes) |-> 0]
    /\ ResolverIdle
    /\ NamerIdle
    /\ MainIdle

SpecRace == InitRace /\ [][Next]_vars

-----------------------------------------------------------------------------
(* Workflow orchestrator and command line: cli.main,                       *)
(* DbtIncrementalCI.__init__, run and cleanup, with the manifest fetch of  *)
(* DbtCloudClient and the change detector as collaborators that succeed or *)
(* fail.  The executor steps above run between StartCopy and FinishRun.    *)

LocalPath == "prod/manifest.json"   \* the value of --prod-manifest-path
TempPath == "manifest.json"         \* temp_path of _fetch_manifest_from_dbt_cloud

\* the manifest files a run may load
MainManifests ==
    {[nodes |-> <<>>, sources |-> <<>>],
     [nodes |-> (Key("m", <<"b">>) :> Entry("model", Some("incremental"), Key("m", <<"b">>))),
      sources |-> <<>>],
     [nodes |-> (Key("m", <<"b">>) :> Entry("model", Some("incremental"), Key("m", <<"b">>)))
                @@ (Key("n", <<"b">>) :> Entry("snapshot", Some("snapshot"), Key("n", <<"b">>))),
      sources |-> <<>>],
     [nodes |-> (Key("m", <<"a">>) :>
                    [Entry("model", Some("incremental"), Key("m", <<"a">>))
                        EXCEPT !.schema = BaseName \o <<"_", "m">>,
                               !.custom_schema = Some(<<"m">>)]),
      sources |-> (Key("r", <<"b">>) :> Entry("source", None, Key("r", <<"b">>)))],
     [nodes |-> (Key("n", <<"b">>) :> Entry("snapshot", Some("snapshot"), Key("n", <<"b">>))),
      sources |-> <<>>]}

\* the sets the change detector may return
MainModified ==
    {{}, {<<"b">>}, {<<"p", ".", "z">>}, {<<"b">>, <<"q", ".", "d", ".", "a">>}}

MainUriPool == {<<"postgresql", "://", "db">>, <<"bigquery", "://", "db">>}

\* _detect_base_schema: the schema of the first model without a custom schema,
\* else the schema of the first model with its "_<custom>" ending removed
DetectBaseSchema(manifest) ==
    LET keys == SelectSeq(NodeKeySeq, LAMBDA k :
                    k \in DOMAIN manifest.nodes
                    /\ manifest.nodes[k].resource_type = "model")
        plain == SelectSeq(keys, LAMBDA k :
                    ~Truthy(manifest.nodes[k].custom_schema)
                    /\ manifest.nodes[k].schema # <<>>)
        ending(k) == <<"_">> \o manifest.nodes[k].custom_schema[1]
        custom == SelectSeq(keys, LAMBDA k :
                    /\ manifest.nodes[k].schema # <<>>
                    /\ Truthy(manifest.nodes[k].custom_schema)
                    /\ EndsWith(manifest.nodes[k].schema, ending(k)))
    IN  IF plain # <<>> THEN Some(manifest.nodes[Head(plain)].schema)
        ELSE IF custom # <<>>
             THEN LET k == Head(custom)
                      schema == manifest.nodes[k].schema
                  IN  Some(SubSeq(schema, 1, Len(schema) - Len(ending(k))))
        ELSE None

\* what client.save_manifest_to_file may do: the artifact is saved, a request
\* fails, or (no run id given) the job has no successful run
FetchOutcomes(run_id) ==
    {[ok |-> TRUE, msg |-> <<>>], [ok |-> FALSE, msg |-> <<"HTTPError">>]}
    \cup IF run_id THEN {}
         ELSE {[ok |-> FALSE, msg |-> <<"ValueError", "No successful run found">>]}

\* what _load_manifest may do on a local file
LoadOutcomes ==
    {[ok |-> TRUE, msg |-> <<>>],
     [ok |-> FALSE, msg |-> <<"FileNotFoundError">>],
     [ok |-> FALSE, msg |-> <<"ValueError", "Invalid JSON">>]}

\* mutant: no run has a failed copy
AnyFailedNever(copy_results) == FALSE

\* any(r['status'] == 'failed' for r in results['copy_results'])
AnyFailed(copy_results) ==
    \E k \in 1..Len(copy_results) : copy_results[k].status = "failed"

\* mutant: run never returns early
ShortCircuitNever(size) == FALSE

\* `if not modified_nodes` / `if not filtered_nodes`: the collection is empty
ShortCircuit(size) == size = 0

\* sys.exit(code)
Exit(code) ==
    /\ main_pc' = "exited"
    /\ exit_code' = Some(code)

\* mutant: the exception is dropped and the run goes on
RaiseSwallowed(step, msg) ==
    /\ main_pc' = (CASE step = "fetch" -> "load" [] step = "load" -> "copier"
                     [] step = "detect" -> "filter" [] OTHER -> "detect")
    /\ failed_step' = Some(step)
    /\ UNCHANGED fatal

\* an exception raised in `step` reaches `except Exception` of main
Raise(step, msg) ==
    /\ main_pc' = "handler"
    /\ failed_step' = Some(step)
    /\ fatal' = Some(msg)

\* main is entered: the manifest source is validated
Validate ==
    /\ main_pc = "start"
    /\ IF ~opts.local /\ ~opts.cloud
       THEN err_stream' = err_stream + 1 /\ Exit(1)
       ELSE /\ err_stream' = IF opts.local /\ opts.cloud THEN err_stream + 1
                             ELSE err_stream
            /\ main_pc' = "init"
            /\ UNCHANGED exit_code
    /\ UNCHANGED <<opts, temp_manifest_path, cache_file, unlinked, fatal, report,
                   failed_step, calls>>
    /\ UNCHANGED <<copierVars, resolverVars, namerVars>>

\* DbtIncrementalCI.__init__, the manifest source: the local path, or the
\* artifact fetched from the job-run service and written to TempPath
FetchManifest ==
    /\ main_pc = "init"
    /\ IF opts.local
       THEN /\ main_pc' = "load"
            /\ UNCHANGED <<temp_manifest_path, cache_file, fatal, failed_step>>
       ELSE IF opts.cloud
       THEN \E f \in FetchOutcomes(opts.run_id) :
              IF f.ok
              THEN /\ cache_file' = "present"
                   /\ temp_manifest_path' = Some(TempPath)
                   /\ main_pc' = "load"
                   /\ UNCHANGED <<fatal, failed_step>>
              ELSE /\ Raise("fetch", f.msg)
                   /\ UNCHANGED <<temp_manifest_path, cache_file>>
       ELSE /\ Raise("config", <<"ValueError">>)
            /\ UNCHANGED <<temp_manifest_path, cache_file>>
    /\ UNCHANGED <<opts, unlinked, report, exit_code, err_stream, calls>>
    /\ UNCHANGED <<copierVars, resolverVars, namerVars>>

\* DbtHelper.__init__: the manifest file is read and parsed
LoadManifest ==
    /\ main_pc = "load"
    /\ \E l \in (IF opts.local THEN LoadOutcomes ELSE {[ok |-> TRUE, msg |-> <<>>]}) :
         IF l.ok
         THEN /\ prod_manifest' \in MainManifests
              /\ main_pc' = "copier"
              /\ UNCHANGED <<fatal, failed_step>>
         ELSE /\ Raise("load", l.msg)
              /\ UNCHANGED prod_manifest
    /\ UNCHANGED <<opts, temp_manifest_path, cache_file, unlinked, report,
                   exit_code, err_stream, calls>>
    /\ UNCHANGED <<modified_nodes, filtered_nodes>>
    /\ UNCHANGED <<copierVars, namerVars>>

\* the rest of DbtIncrementalCI.__init__: the base schema is detected when it
\* was not given, and the TableCopier is built
MakeCopier ==
    /\ main_pc = "copier"
    /\ base_schema' = IF BaseUnset(base_schema) THEN DetectBaseSchema(prod_manifest)
                      ELSE base_schema
    /\ \E ok \in (IF dry_run THEN {TRUE} ELSE BOOLEAN) :
         IF ok
         THEN /\ engine' = MakeEngine(dry_run, database_uri)
              /\ main_pc' = "detect"
              /\ UNCHANGED <<fatal, failed_step>>
         ELSE /\ Raise("engine", <<"ModuleNotFoundError">>)
              /\ UNCHANGED engine
    /\ UNCHANGED <<opts, temp_manifest_path, cache_file, unlinked, report,
                   exit_code, err_stream, calls>>
    /\ UNCHANGED <<dry_run, threads, database_uri, ci_schema, nodes, ct, exc, pc,
                   todo, log, future, results, runs>>
    /\ UNCHANGED <<resolverVars, namerVars>>

EmptyReport(changed) ==
    [modified_nodes |-> changed, filtered_nodes |-> <<>>, copy_results |-> <<>>]

\* run, step 1: get_modified_nodes
GetModifiedNodes ==
    /\ main_pc = "detect"
    /\ \/ /\ Raise("detect", <<"RuntimeError", "Failed to run dbt ls">>)
          /\ UNCHANGED <<modified_nodes, report>>
       \/ \E changed \in MainModified :
            /\ modified_nodes' = changed
            /\ IF ShortCircuit(Cardinality(changed))
               THEN report' = Some(EmptyReport({})) /\ main_pc' = "summary"
               ELSE main_pc' = "filter" /\ UNCHANGED report
            /\ UNCHANGED <<fatal, failed_step>>
    /\ UNCHANGED <<opts, temp_manifest_path, cache_file, unlinked, exit_code,
                   err_stream, calls>>
    /\ UNCHANGED <<prod_manifest, filtered_nodes>>
    /\ UNCHANGED <<copierVars, namerVars>>

\* run, step 2: filter_incremental_and_snapshots
FilterModified ==
    /\ main_pc = "filter"
    /\ calls' = [calls EXCEPT !.filter = @ + 1]
    /\ \E order \in Orders(modified_nodes) :
         LET found == FilterInOrder(AllProd(prod_manifest), order)
         IN  /\ filtered_nodes' = Some(found)
             /\ IF ShortCircuit(Len(found))
                THEN /\ report' = Some(EmptyReport(modified_nodes))
                     /\ main_pc' = "summary"
                ELSE main_pc' = "copy" /\ UNCHANGED report
    /\ UNCHANGED <<opts, temp_manifest_path, cache_file, unlinked, fatal,
                   exit_code, err_stream, failed_step>>
    /\ UNCHANGED <<prod_manifest, modified_nodes>>
    /\ UNCHANGED <<copierVars, namerVars>>

\* run, step 3: self.copier.copy_tables(filtered_nodes) is called
StartCopy ==
    /\ main_pc = "copy"
    /\ calls' = [calls EXCEPT !.copy = @ + 1]
    /\ nodes' = filtered_nodes[1]
    /\ ct' = IF nodes' = <<>> THEN "returned" ELSE "running"
    /\ pc' = [i \in 1..Len(nodes') |-> "pending"]
    /\ todo' = [i \in 1..Len(nodes') |-> <<>>]
    /\ log' = [i \in 1..Len(nodes') |-> <<>>]
    /\ future' = [i \in 1..Len(nodes') |-> NoFuture]
    /\ runs' = [i \in 1..Len(nodes') |-> 0]
    /\ results' = <<>>
    /\ main_pc' = "copying"
    /\ UNCHANGED <<opts, temp_manifest_path, cache_file, unlinked, fatal, report,
                   exit_code, err_stream, failed_step>>
    /\ UNCHANGED <<dry_run, threads, database_uri, base_schema, ci_schema, engine, exc>>
    /\ UNCHANGED <<resolverVars, namerVars>>

\* copy_tables has ended: run returns its report, or the exception goes on
FinishRun ==
    /\ main_pc = "copying"
    /\ ct \in {"returned", "raised"}
    /\ IF ct = "returned"
       THEN /\ report' = Some([modified_nodes |-> modified_nodes,
                               filtered_nodes |-> filtered_nodes[1],
                               copy_results |-> results])
            /\ main_pc' = "summary"
            /\ UNCHANGED <<fatal, failed_step>>
       ELSE /\ Raise("copy", exc[1])
            /\ UNCHANGED report
    /\ UNCHANGED <<opts, temp_manifest_path, cache_file, unlinked, exit_code,
                   err_stream, calls>>
    /\ UNCHANGED <<copierVars, resolverVars, namerVars>>

\* the summary is printed, ci.cleanup() disposes the engine and tries to remove
\* the cached manifest (a failure is logged), and the process exits
SummaryAndCleanup ==
    /\ main_pc = "summary"
    /\ IF temp_manifest_path # None
       THEN /\ unlinked' = Append(unlinked, temp_manifest_path[1])
            /\ \E removed \in BOOLEAN :
                 cache_file' = IF removed THEN "absent" ELSE cache_file
       ELSE UNCHANGED <<unlinked, cache_file>>
    /\ Exit(IF AnyFailed(report[1].copy_results) THEN 1 ELSE 0)
    /\ UNCHANGED <<opts, temp_manifest_path, fatal, report, err_stream,
                   failed_step, calls>>
    /\ UNCHANGED <<copierVars, resolverVars, namerVars>>

\* `except Exception`: the error is written to the error stream, exit status 1
HandleFatal ==
    /\ main_pc = "handler"
    /\ err_stream' = err_stream + 1
    /\ Exit(1)
    /\ UNCHANGED <<opts, temp_manifest_path, cache_file, unlinked, fatal, report,
                   failed_step, calls>>
    /\ UNCHANGED <<copierVars, resolverVars, namerVars>>

\* the command line: the options of one invocation
InitMain ==
    /\ main_pc = "start"
    /\ opts \in [local : BOOLEAN, cloud : BOOLEAN, run_id : BOOLEAN]
    /\ temp_manifest_path = None
    /\ cache_file = "absent"
    /\ unlinked = <<>>
    /\ fatal = None
    /\ report = None
    /\ exit_code = None
    /\ err_stream = 0
    /\ failed_step = None
    /\ calls = [filter |-> 0, copy |-> 0]
    /\ dry_run \in BOOLEAN
    /\ threads \in 1..MaxThreads
    /\ database_uri \in MainUriPool
    /\ ci_schema = CiName
    /\ base_schema \in {None, Some(BaseName)}
    /\ engine = None
    /\ nodes = <<>>
    /\ ct = "idle"
    /\ exc = None
    /\ pc = <<>>
    /\ todo = <<>>
    /\ log = <<>>
    /\ future = <<>>
    /\ results = <<>>
    /\ runs = <<>>
    /\ ResolverIdle
    /\ NamerIdle

NextMain ==
    \/ Validate
    \/ FetchManifest
    \/ LoadManifest
    \/ MakeCopier
    \/ GetModifiedNodes
    \/ FilterModified
    \/ StartCopy
    \/ \E i \in Cands : Begin(i)
    \/ \E i \in Cands : Preview(i)
    \/ \E i \in Cands : EnsureSchema(i)
    \/ \E i \in Cands : CopyConnect(i)
    \/ \E i \in Cands : CopyExecute(i)
    \/ \E i \in Cands : Collect(i)
    \/ Shutdown
    \/ ReturnResults
    \/ FinishRun
    \/ SummaryAndCleanup
    \/ HandleFatal

SpecMain == InitMain /\ [][NextMain]_vars

-----------------------------------------------------------------------------
(* Properties of the change resolver (checked under SpecResolver).         *)

\* the entry a manifest holds under `key`, looked up in 'nodes' and in 'sources'
ManifestKeys == DOMAIN prod_manifest.nodes \cup DOMAIN prod_manifest.sources

EntryOf(key) ==
    IF key \in DOMAIN prod_manifest.nodes THEN prod_manifest.nodes[key]
    ELSE prod_manifest.sources[key]

\* a stateful entry: an incremental model or a snapshot
Stateful(key) ==
    \/ /\ EntryOf(key).resource_type = "model"
       /\ EntryOf(key).materialized = Some("incremental")
    \/ EntryOf(key).resource_type = "snapshot"

Emitted == filtered_nodes[1]

\* the stateful entries whose key ends with the last dotted segment of `raw`
StatefulMatches(raw) ==
    {k \in ManifestKeys : EndsWith(k, LastSegment(raw)) /\ Stateful(k)}

MatchCount(raw) == Cardinality(StatefulMatches(raw))

RECURSIVE TotalMatches(_)
TotalMatches(S) ==
    IF S = {} THEN 0
    ELSE LET x == CHOOSE y \in S : TRUE IN MatchCount(x) + TotalMatches(S \ {x})

\* C3: every candidate returned by filter_incremental_and_snapshots is a model
\* or a snapshot; a model candidate has materialization 'incremental' and comes
\* from a manifest model materialized incremental, a snapshot candidate has
\* materialization 'snapshot'; no source, no other resource type and no model
\* with another or absent materialization is emitted.
C3_OnlyStatefulCandidates ==
    filtered_nodes # None =>
        \A n \in 1..Len(Emitted) :
            LET c == Emitted[n] IN
            /\ c.resource_type \in {"model", "snapshot"}
            /\ c.resource_type = "model" => c.materialization = Some("incremental")
            /\ c.resource_type = "snapshot" => c.materialization = Some("snapshot")
            /\ c.unique_id \in ManifestKeys
            /\ c.unique_id \notin DOMAIN prod_manifest.sources
            /\ EntryOf(c.unique_id).resource_type = c.resource_type
            /\ Stateful(c.unique_id)

\* C3 witness: a model and a snapshot were emitted while a matching model with
\* another materialization was not.
C3_Witness ==
    /\ filtered_nodes # None
    /\ \E n \in 1..Len(Emitted) : Emitted[n].resource_type = "snapshot"
    /\ \E k \in ManifestKeys :
         /\ EntryOf(k).resource_type = "model"
         /\ EntryOf(k).materialized = Some("table")
         /\ \E raw \in modified_nodes : EndsWith(k, LastSegment(raw))
         /\ \A n \in 1..Len(Emitted) : Emitted[n].unique_id # k

\* C4: for every raw changed string and every stateful manifest entry whose key
\* ends with the last dotted segment of that string, the result holds a
\* candidate with that key (all of them when several match); every candidate
\* comes from such a match, and each raw string contributes exactly as many
\* candidates as it has matches (none, and no error, when it has none).
C4_EveryStatefulMatchEmitted ==
    filtered_nodes # None =>
        /\ \A raw \in modified_nodes : \A k \in StatefulMatches(raw) :
               \E n \in 1..Len(Emitted) : Emitted[n].unique_id = k
        /\ \A n \in 1..Len(Emitted) :
               \E raw \in modified_nodes : Emitted[n].unique_id \in StatefulMatches(raw)
        /\ Len(Emitted) = TotalMatches(modified_nodes)

\* C4 witness: one raw string matched two stateful entries, both emitted, and
\* another raw string matched nothing.
C4_Witness ==
    /\ filtered_nodes # None
    /\ \E raw \in modified_nodes : Cardinality(StatefulMatches(raw)) = 2
    /\ \E raw \in modified_nodes :
         \A k \in ManifestKeys : ~EndsWith(k, LastSegment(raw))
    /\ Len(Emitted) = 2

\* C5 (as claimed): an entry is selected for a raw string only when the last
\* dotted segment of its key equals the last dotted segment of the raw string.
C5_ExactSegmentOnly ==
    filtered_nodes # None =>
        \A n \in 1..Len(Emitted) :
            \E raw \in modified_nodes :
                LastSegment(Emitted[n].unique_id) = LastSegment(raw)

\* C15 (as claimed): the list returned by filter_incremental_and_snapshots
\* holds at most one candidate per manifest key, for every set of changed
\* strings.
C15_OneCandidatePerKey ==
    filtered_nodes # None =>
        \A a, b \in 1..Len(Emitted) :
            Emitted[a].unique_id = Emitted[b].unique_id => a = b

-----------------------------------------------------------------------------
(* Properties of the schema namer (checked under SpecNamer).               *)

\* C6: _compute_target_schema returns ci_schema when base_schema is unset (None
\* or empty), when source_schema does not start with base_schema and when it
\* equals base_schema, and ci_schema followed by the rest of source_schema when
\* source_schema is base_schema followed by a non-empty rest; with base 'core'
\* and ci 'ci': 'core_marts' -> 'ci_marts', 'core' -> 'ci', 'other' -> 'ci'.
C6_TargetSchemaCases ==
    target_schema # None =>
        LET r == target_schema[1]
            rests == IF base_schema = None THEN {}
                     ELSE {t \in {SubSeq(source_schema, n + 1, Len(source_schema)) :
                                     n \in 0..Len(source_schema)} :
                             source_schema = base_schema[1] \o t}
        IN  /\ base_schema = None => r = ci_schema
            /\ (base_schema # None /\ base_schema[1] = <<>>) => r = ci_schema
            /\ (base_schema # None /\ rests = {}) => r = ci_schema
            /\ (base_schema # None /\ source_schema = base_schema[1]) => r = ci_schema
            /\ (base_schema # None /\ base_schema[1] # <<>>) =>
                   \A t \in rests : t # <<>> => r = ci_schema \o t
            /\ (base_schema = Some(Core) /\ ci_schema = Ci) =>
                   /\ source_schema = CoreMarts => r = CiMarts
                   /\ source_schema = Core => r = Ci
                   /\ source_schema = Other => r = Ci

\* C6 witness: base 'core', ci 'ci', source 'core_marts' gave 'ci_marts'.
C6_Witness ==
    /\ base_schema = Some(Core)
    /\ ci_schema = Ci
    /\ source_schema = CoreMarts
    /\ target_schema = Some(CiMarts)

-----------------------------------------------------------------------------
(* Properties of the replication executor (checked under Spec).            *)

\* the events of candidate i that raised, by phase
Failures(i, phase) == SelectSeq(log[i], LAMBDA e : e.phase = phase /\ ~e.ok)

CopyFailed(i) == Failures(i, "copy") # <<>>
EnsureFailed(i) == Failures(i, "ensure") # <<>>

\* the texts candidate i handed to conn.execute in the copy phase
CopyStatements(i) ==
    LET evs == SelectSeq(log[i], LAMBDA e : e.phase = "copy" /\ e.op = "execute")
    IN  [k \in 1..Len(evs) |-> evs[k].text]

\* what the invocation for candidate i returned, once it has
Returned(i) == IF threads = 1 THEN i <= Len(results) ELSE future[i].result # None
OutcomeOf(i) == IF threads = 1 THEN results[i] ELSE future[i].result[1]

Count(seq, x) == Cardinality({k \in 1..Len(seq) : seq[k] = x})

\* `results` holds each returned outcome as often as candidates returned it
EachOutcomeOnce ==
    /\ Len(results) = Len(nodes)
    /\ \A i \in Cands : Returned(i)
    /\ \A i \in Cands :
         Count(results, OutcomeOf(i))
             = Cardinality({j \in Cands : OutcomeOf(j) = OutcomeOf(i)})

\* C1 (as claimed): in live mode, when acquiring the copy connection or a copy
\* statement of a candidate raises, copy_tables does not raise, that candidate
\* has exactly one outcome, 'failed' with the message of the exception, and
\* once copy_tables has ended every other candidate has run and has its own
\* outcome, 'success' when its own copy did not fail.
C1_CopyFailureNeverRaises ==
    ~dry_run =>
        \A i \in Cands : CopyFailed(i) =>
            /\ ct \notin {"unwinding", "raised"}
            /\ Returned(i)
            /\ OutcomeOf(i).status = "failed"
            /\ OutcomeOf(i).error = Some(Failures(i, "copy")[1].err)
            /\ ct = "returned" =>
                   /\ EachOutcomeOnce
                   /\ \A j \in Cands :
                          /\ runs[j] = 1
                          /\ ~CopyFailed(j) => OutcomeOf(j).status = "success"

\* The part of C1 that holds whatever the ensure-schema step does: a failure of
\* the copy phase never leaves _copy_single_table, the candidate returns one
\* outcome with status 'failed' whose error is the message of that exception;
\* an exception that leaves copy_tables is always one raised by the connection
\* of an ensure-schema step; after any outcome the next candidate can start,
\* and when copy_tables returns every candidate ran once and has its own
\* outcome, 'success' exactly when its own copy did not fail.
CopyFailureContained ==
    ~dry_run =>
        /\ \A i \in Cands : CopyFailed(i) =>
               /\ pc[i] = "done"
               /\ Returned(i)
               /\ OutcomeOf(i).status = "failed"
               /\ OutcomeOf(i).error = Some(Failures(i, "copy")[1].err)
               /\ Len(Failures(i, "copy")) = 1
               /\ OutcomeOf(i).unique_id = nodes[i].unique_id
        /\ exc # None =>
               \E i \in Cands :
                   /\ pc[i] = "raised"
                   /\ ~CopyFailed(i)
                   /\ Failures(i, "ensure") # <<>>
                   /\ exc = Some(log[i][Len(log[i])].err)
                   /\ log[i][Len(log[i])].op = "connect"
        /\ \A i \in Cands :
               (ct = "running" /\ pc[i] = "pending" /\ InFlight = {}
                   /\ \A j \in 1..(i - 1) : pc[j] = "done")
               => IF threads = 1 THEN SeqReady(i) ELSE PoolReady(i)
        /\ ct = "returned" =>
               /\ EachOutcomeOnce
               /\ \A i \in Cands :
                      /\ runs[i] = 1
                      /\ OutcomeOf(i).status = IF CopyFailed(i) THEN "failed" ELSE "success"

\* three candidates on two threads, the copy of the second failed on its second
\* statement, the other two succeeded, copy_tables returned
CopyFailureContainedReached ==
    /\ ~dry_run
    /\ threads = 2
    /\ Len(nodes) = 3
    /\ ct = "returned"
    /\ CopyFailed(2) /\ Len(CopyStatements(2)) = 2
    /\ OutcomeOf(2).status = "failed"
    /\ OutcomeOf(1).status = "success"
    /\ OutcomeOf(3).status = "success"

\* C2 (as claimed): in live mode no failure of the ensure-schema step (its
\* connection or its CREATE SCHEMA statement) leaves _copy_single_table or
\* copy_tables; the candidate's copy is still attempted, its outcome is 'failed'
\* only if its own copy failed, and copy_tables does not raise.
C2_EnsureFailureSwallowed ==
    ~dry_run =>
        /\ ct \notin {"unwinding", "raised"}
        /\ \A i \in Cands : EnsureFailed(i) =>
               /\ pc[i] # "raised"
               /\ pc[i] = "done" =>
                      /\ \E k \in 1..Len(log[i]) : log[i][k].phase = "copy"
                      /\ OutcomeOf(i).status = "failed" => CopyFailed(i)

\* C7: in dry-run mode no engine exists, no candidate causes any connection
\* event, nothing raises, every outcome has status 'dry_run' and a non-empty
\* preview statement, and copy_tables returns one outcome per candidate.
C7_DryRunPurity ==
    dry_run =>
        /\ engine = None
        /\ \A i \in Cands : log[i] = <<>> /\ todo[i] = <<>> /\ pc[i] # "raised"
        /\ exc = None /\ ct \notin {"unwinding", "raised"}
        /\ \A k \in 1..Len(results) :
               /\ results[k].status = "dry_run"
               /\ results[k].error = None
               /\ results[k].query # None
               /\ results[k].query[1] # <<>>
        /\ ct = "returned" => Len(results) = Len(nodes)

\* C7 witness: a dry run of three candidates on two threads returned.
C7_Witness ==
    /\ dry_run
    /\ threads = 2
    /\ ct = "returned"
    /\ Len(results) = 3
    /\ \A k \in 1..3 : results[k].status = "dry_run"

\* the source reference a copy statement reads from
ExpectedSource(i) ==
    IF Truthy(nodes[i].database) /\ EngineDialectName(engine) # "bigquery"
    THEN nodes[i].database[1] \o <<".">> \o SourceRef(nodes[i])
    ELSE SourceRef(nodes[i])

\* C8 (as claimed): in live mode a candidate whose copy succeeded issued, for
\* bigquery, exactly one statement CREATE OR REPLACE TABLE <target> AS SELECT *
\* FROM <source>, and for every other dialect exactly two statements, first
\* DROP TABLE IF EXISTS <target>, then CREATE TABLE <target> AS SELECT * FROM
\* <source>.
C8_StatementsPerDialect ==
    ~dry_run =>
        \A i \in Cands : (pc[i] = "done" /\ ~CopyFailed(i)) =>
            LET stmts == CopyStatements(i)
                target == TargetRef(nodes[i])
                source == ExpectedSource(i)
            IN  IF EngineDialectName(engine) = "bigquery"
                THEN /\ Len(stmts) = 1
                     /\ Strip(stmts[1]) =
                            <<"CREATE OR REPLACE TABLE", WS, BQ>> \o target \o
                            <<BQ, WS, "AS SELECT * FROM", WS, BQ>> \o source \o <<BQ>>
                ELSE /\ Len(stmts) = 2
                     /\ Strip(stmts[1]) = <<"DROP TABLE IF EXISTS", WS>> \o target
                     /\ Strip(stmts[2]) =
                            <<"CREATE TABLE", WS>> \o target \o
                            <<WS, "AS SELECT * FROM", WS>> \o source

\* C9: with threads = N > 1 at most N invocations of _copy_single_table are in
\* flight at any moment; no candidate is run twice, and when copy_tables ends
\* every candidate has run exactly once and has ended.
C9_PoolWidthRespected ==
    threads > 1 =>
        /\ Cardinality(InFlight) <= threads
        /\ \A i \in Cands : runs[i] = IF pc[i] = "pending" THEN 0 ELSE 1
        /\ ct \in {"returned", "raised"} =>
               \A i \in Cands : runs[i] = 1 /\ pc[i] \in {"done", "raised"}

\* C9 witness: two threads are busy and a third candidate waits for a worker.
C9_Witness ==
    /\ threads = 2
    /\ Cardinality(InFlight) = 2
    /\ \E i \in Cands : pc[i] = "pending"
    /\ ct = "running"

\* C10: with threads = 1 at most one candidate is in flight, a candidate is
\* started only after every earlier candidate has returned and its outcome is
\* in `results`, and `results` is in the order of the input candidates.
C10_SequentialInOrder ==
    threads = 1 =>
        /\ Cardinality(InFlight) <= 1
        /\ Len(results) <= Len(nodes)
        /\ \A i \in Cands : pc[i] # "pending" =>
               \A j \in 1..(i - 1) : pc[j] = "done" /\ j <= Len(results)
        /\ \A k \in 1..Len(results) :
               /\ results[k].unique_id = nodes[k].unique_id
               /\ results[k].source = SourceRef(nodes[k])
               /\ results[k].target = TargetRef(nodes[k])
        /\ ct = "returned" => Len(results) = Len(nodes)

\* C10 witness: three candidates, the first different from the second, were
\* copied one after the other and copy_tables returned.
C10_Witness ==
    /\ threads = 1
    /\ ~dry_run
    /\ ct = "returned"
    /\ Len(results) = 3
    /\ nodes[1] # nodes[2]

\* the outcomes produced so far: those in `results` and those kept by futures
Outcomes ==
    {results[k] : k \in 1..Len(results)}
        \cup {future[i].result[1] : i \in {j \in Cands : future[j].result # None}}

\* C11: whenever copy_tables returns, `results` holds exactly one outcome per
\* candidate: for every unique_id as many outcomes as candidates, and each
\* outcome's source and target are <schema>.<table> and <target schema>.<table>
\* of a candidate with that unique_id.
C11_OneOutcomePerCandidate ==
    ct = "returned" =>
        /\ Len(results) = Len(nodes)
        /\ \A i \in Cands :
               Cardinality({k \in 1..Len(results) :
                                results[k].unique_id = nodes[i].unique_id})
                   = Cardinality({j \in Cands : nodes[j].unique_id = nodes[i].unique_id})
        /\ \A k \in 1..Len(results) : \E i \in Cands :
               /\ results[k].unique_id = nodes[i].unique_id
               /\ results[k].source = nodes[i].schema \o <<".">> \o nodes[i].alias
               /\ results[k].target =
                      ComputeTargetSchema(base_schema, ci_schema, nodes[i].schema)
                          \o <<".">> \o nodes[i].alias

\* C11 witness: a live run of three candidates on two threads returned, and the
\* first collected outcome is not the first candidate's.
C11_Witness ==
    /\ ~dry_run
    /\ threads = 2
    /\ ct = "returned"
    /\ Len(results) = 3
    /\ results[1].unique_id # nodes[1].unique_id

\* C17: every outcome has status dry_run, success or failed; it has an error
\* exactly when its status is failed and a preview statement exactly when its
\* status is dry_run; in dry-run mode every status is dry_run, in live mode
\* every status is success or failed.
C17_OutcomeShape ==
    \A o \in Outcomes :
        /\ o.status \in {"dry_run", "success", "failed"}
        /\ o.error # None <=> o.status = "failed"
        /\ o.query # None <=> o.status = "dry_run"
        /\ dry_run => o.status = "dry_run"
        /\ ~dry_run => o.status \in {"success", "failed"}

\* C17 witness: a live run returned a success outcome and a failed outcome.
C17_Witness ==
    /\ ~dry_run
    /\ ct = "returned"
    /\ \E k \in 1..Len(results) : results[k].status = "success"
    /\ \E k \in 1..Len(results) :
         results[k].status = "failed" /\ results[k].error # None

\* the dialect classes of the statement builder
DialectClass(name) ==
    IF name \in {"postgresql", "redshift"} THEN "postgres_like"
    ELSE IF name = "bigquery" THEN "bigquery_like"
    ELSE IF name = "trino" THEN "trino_like"
    ELSE "generic"

\* the preview a dry run returns for candidate i with this connection string
PreviewOf(i) ==
    Strip(BuildCopyQueryFor(UriDialectName(database_uri), nodes[i].database,
                            nodes[i].schema, nodes[i].alias, nodes[i].alias))

\* the statements in a sequence of texts, one after the other
RECURSIVE StatementsIn(_)
StatementsIn(texts) ==
    IF texts = <<>> THEN <<>>
    ELSE SplitStatements(Head(texts)) \o StatementsIn(Tail(texts))

\* C16 (as claimed): when a live copy of a candidate has succeeded, the dialect
\* resolved from the connection string is in the dialect class of the engine,
\* and the dry-run preview for the same candidate, schemas and connection
\* string consists of the statements the live copy executed (same shape, same
\* target, same source).
C16_PreviewAgreesWithLive ==
    ~dry_run =>
        \A i \in Cands : (pc[i] = "done" /\ ~CopyFailed(i)) =>
            /\ DialectClass(UriDialectName(database_uri))
                   = DialectClass(EngineDialectName(engine))
            /\ StatementsIn(<<PreviewOf(i)>>) = StatementsIn(CopyStatements(i))

\* the events of candidate i in the ensure-schema step
EnsureEvents(i) == SelectSeq(log[i], LAMBDA e : e.phase = "ensure")

\* the CREATE SCHEMA statements candidate i issued
CreateSchemaEvents(i) == SelectSeq(log[i], LAMBDA e : e.phase = "ensure" /\ e.op = "execute")

\* the steps of one candidate in the claimed state machine
ProtocolSteps ==
    {<<"pending", "ensure">>, <<"ensure", "copy">>, <<"copy", "exec">>,
     <<"copy", "done">>, <<"exec", "done">>,
     <<"pending", "preview">>, <<"preview", "done">>}

\* what the log of candidate i holds at each position of the protocol
ProtocolLog(i) ==
    /\ dry_run => log[i] = <<>>
    /\ pc[i] \in {"pending", "ensure"} => log[i] = <<>>
    /\ \A a, b \in 1..Len(log[i]) :
           (a < b /\ log[i][b].phase = "ensure") => log[i][a].phase = "ensure"
    /\ (~dry_run /\ pc[i] \in {"copy", "exec", "done"}) =>
           IF EngineDialectName(engine) = "bigquery"
           THEN EnsureEvents(i) = <<>>
           ELSE /\ Len(EnsureEvents(i)) = 2
                /\ EnsureEvents(i)[1].op = "connect" /\ EnsureEvents(i)[1].ok
                /\ EnsureEvents(i)[2].op = "execute"
                /\ EndsWith(EnsureEvents(i)[2].text,
                            <<WS>> \o ComputeTargetSchema(base_schema, ci_schema,
                                                         nodes[i].schema))
    /\ pc[i] = "done" =>
           /\ Returned(i)
           /\ OutcomeOf(i).status \in
                  (IF dry_run THEN {"dry_run"} ELSE {"success", "failed"})

\* C19 (as claimed): in live mode a candidate goes pending -> schema ensured
\* -> statement built -> success or failed, in dry-run mode pending -> dry_run,
\* with no other step; the ensure step happens once, on the candidate's
\* computed target schema, before any copy event; for bigquery it opens no
\* connection and issues no statement; a dry run has no ensure step.
C19_ProtocolOrder ==
    /\ [](\A i \in Cands :
            /\ pc[i] \in {"pending", "ensure", "copy", "exec", "preview", "done"}
            /\ ProtocolLog(i))
    /\ [][\A i \in Cands :
            pc'[i] # pc[i] => <<pc[i], pc'[i]>> \in ProtocolSteps]_vars

\* The part of C19 that holds: the same order, with one more way to end: from
\* the ensure step, when its connection cannot be opened, the candidate ends
\* with the exception and no outcome.
ProtocolOrderUpToEscape ==
    /\ [](\A i \in Cands :
            /\ ProtocolLog(i)
            /\ pc[i] = "raised" =>
                   /\ ~dry_run
                   /\ Len(log[i]) = 1
                   /\ log[i][1].phase = "ensure" /\ log[i][1].op = "connect"
                   /\ ~log[i][1].ok)
    /\ [][\A i \in Cands :
            pc'[i] # pc[i] =>
                <<pc[i], pc'[i]>> \in ProtocolSteps \cup {<<"ensure", "raised">>}]_vars

\* a live postgresql run: one candidate ended 'success' while another has
\* built its statements after its one CREATE SCHEMA
ProtocolOrderReached ==
    /\ ~dry_run
    /\ EngineDialectName(engine) = "postgresql"
    /\ \E i \in Cands : pc[i] = "done" /\ OutcomeOf(i).status = "success"
    /\ \E i \in Cands : pc[i] = "exec" /\ Len(CreateSchemaEvents(i)) = 1

CreateSchemaFailed(i) ==
    \E k \in 1..Len(CreateSchemaEvents(i)) : ~CreateSchemaEvents(i)[k].ok

\* the part of the state a worker running candidate i may change
WorkerState(i) == <<pc[i], todo[i], log[i], future[i], runs[i]>>

\* C20: with threads > 1 and candidates of one target schema, under every
\* interleaving each candidate that reaches its copy has issued its own CREATE
\* SCHEMA; a CREATE SCHEMA that raises does not raise out of the candidate nor
\* fail it: the candidate goes on, ends 'success' when its copy did not fail
\* and 'failed' only when its copy failed; a step of one worker changes nothing
\* of another candidate, nor the engine, nor the list of results.
C20_SchemaCreateRaceTolerated ==
    /\ [](~dry_run =>
            \A i \in Cands :
                /\ pc[i] \in {"copy", "exec", "done"} =>
                       Len(CreateSchemaEvents(i)) = 1
                /\ CreateSchemaFailed(i) =>
                       /\ pc[i] \in {"copy", "exec", "done"}
                       /\ future[i].exception = None
                       /\ pc[i] = "done" =>
                              OutcomeOf(i).status =
                                  IF CopyFailed(i) THEN "failed" ELSE "success")
    /\ [][\A i \in Cands :
            (pc'[i] # pc[i]) =>
                /\ \A j \in Cands \ {i} : WorkerState(j)' = WorkerState(j)
                /\ engine' = engine
                /\ results' = results]_vars

\* C20 witness: two different candidates of one target schema ran at the same
\* time; the first ended 'success' although its CREATE SCHEMA raised, while
\* the second, whose CREATE SCHEMA succeeded, is executing its copy.
C20_Witness ==
    /\ ~dry_run
    /\ threads = 2
    /\ nodes[1] # nodes[2]
    /\ ComputeTargetSchema(base_schema, ci_schema, nodes[1].schema)
           = ComputeTargetSchema(base_schema, ci_schema, nodes[2].schema)
    /\ CreateSchemaFailed(1)
    /\ pc[1] = "done" /\ OutcomeOf(1).status = "success"
    /\ pc[2] = "exec" /\ ~CreateSchemaFailed(2)
    /\ runs[1] = 1 /\ runs[2] = 1

-----------------------------------------------------------------------------
(* Properties of the command line and the orchestrator (checked under      *)
(* SpecMain).                                                              *)

NoManifestSource == ~opts.local /\ ~opts.cloud

\* the report returned by run holds an outcome with status 'failed'
ReportHasFailure ==
    /\ report # None
    /\ \E k \in 1..Len(report[1].copy_results) :
         report[1].copy_results[k].status = "failed"

\* C12: the process exits with a non-zero status exactly when no manifest
\* source was configured, or an error reached the handler of main, or an
\* outcome has status 'failed'; a run that ends with no failed outcome (an
\* empty run and a dry run included) exits 0.
C12_ExitStatus ==
    main_pc = "exited" =>
        /\ exit_code \in {Some(0), Some(1)}
        /\ exit_code # Some(0) <=>
               (NoManifestSource \/ failed_step # None \/ ReportHasFailure)
        /\ (report # None /\ ~ReportHasFailure) => exit_code = Some(0)

\* C12 witness: a run without any error exited 1 because a copy failed.
C12_Witness ==
    /\ main_pc = "exited"
    /\ exit_code = Some(1)
    /\ failed_step = None
    /\ ReportHasFailure
    /\ \E k \in 1..Len(report[1].copy_results) :
         report[1].copy_results[k].status = "success"

\* C13: when the manifest cannot be fetched or loaded, or change detection
\* fails, no connection is opened and no statement issued in that run,
\* copy_tables is not called, run returns no report, and the error reaches
\* main, which writes it to the error stream and exits 1.
C13_FatalAbortsBeforeReplication ==
    failed_step \in {Some("fetch"), Some("load"), Some("detect")} =>
        /\ log = <<>>
        /\ calls.copy = 0
        /\ ct = "idle"
        /\ report = None
        /\ fatal # None
        /\ main_pc \in {"handler", "exited"}
        /\ main_pc = "exited" => exit_code = Some(1) /\ err_stream >= 1

\* C13 witness: change detection failed after the manifest was loaded, and
\* the process exited.
C13_Witness ==
    /\ failed_step = Some("detect")
    /\ prod_manifest.nodes # <<>>
    /\ main_pc = "exited"
    /\ exit_code = Some(1)

\* C14 (as claimed): when the run wrote the cached manifest file, its removal
\* was attempted by the time the process has exited, on every exit path; the
\* local manifest path is never removed.
C14_CachedManifestRemoved ==
    /\ (main_pc = "exited" /\ temp_manifest_path # None) =>
           \E k \in 1..Len(unlinked) : unlinked[k] = TempPath
    /\ \A k \in 1..Len(unlinked) : unlinked[k] # LocalPath

\* C18: filter_incremental_and_snapshots and copy_tables are called at most
\* once; copy_tables is called only with the non-empty candidate list; when
\* the change detector returned the empty set, run returned the empty report
\* and called neither; when no candidate was found, run returned the changed
\* set with no candidates and no outcomes and did not call copy_tables.
C18_ShortCircuits ==
    /\ calls.filter <= 1
    /\ calls.copy <= 1
    /\ calls.copy = 1 =>
           nodes # <<>> /\ filtered_nodes = Some(nodes) /\ calls.filter = 1
    /\ (main_pc \in {"summary", "exited"} /\ failed_step = None
            /\ ~NoManifestSource) =>
           /\ report # None
           /\ modified_nodes = {} =>
                  /\ report[1] = [modified_nodes |-> {}, filtered_nodes |-> <<>>,
                                  copy_results |-> <<>>]
                  /\ calls = [filter |-> 0, copy |-> 0]
           /\ (modified_nodes # {} /\ filtered_nodes = Some(<<>>)) =>
                  /\ report[1] = [modified_nodes |-> modified_nodes,
                                  filtered_nodes |-> <<>>, copy_results |-> <<>>]
                  /\ calls = [filter |-> 1, copy |-> 0]
           /\ (modified_nodes # {} /\ filtered_nodes # Some(<<>>)) =>
                  /\ calls = [filter |-> 1, copy |-> 1]
                  /\ report[1].filtered_nodes = nodes
                  /\ report[1].copy_results = results

\* C18 witness: the changed set was not empty, no candidate was found, and
\* run returned without calling copy_tables.
C18_Witness ==
    /\ report # None
    /\ modified_nodes # {}
    /\ filtered_nodes = Some(<<>>)
    /\ calls = [filter |-> 1, copy |-> 0]
    /\ main_pc = "exited"

=============================================================================
